---- MODULE Spec2Model ----
(***************************************************************************)
(* Video-Caption-generator: the client controller (frontend-vite/src/      *)
(* App.tsx), the two serverless handlers (frontend-vite/api/               *)
(* start-transcription.ts, frontend-vite/api/check-status.ts) and the      *)
(* external transcription provider they talk to.                           *)
(*                                                                         *)
(* Times are integers in milliseconds.  JavaScript's null and undefined    *)
(* are the marker strings Null and Undefined.                              *)
(***************************************************************************)
EXTENDS Integers, Sequences, FiniteSets, TLC

VARIABLES
    file,          \* App.tsx:78   useState<File | null>, 0 is null
    language,      \* App.tsx:80
    task,          \* App.tsx:81
    isSubmitting,  \* App.tsx:82
    error,         \* App.tsx:83   Null or the message
    segments,      \* App.tsx:84   null, undefined or a list
    toast,         \* the toast last shown by react-hot-toast
    data,          \* App.tsx:172  the body read by the call of onSubmit made last, Unparseable while none is
    inflight,      \* App.tsx:159  the fetch calls onSubmit is still awaiting
    elapsed,       \* poll intervals gone by since the running submission began, 0 when none runs
    jobs,          \* the provider's predictions, by id 1..Len(jobs)
    lastStart,     \* the start-transcription call handled last
    lastCheck,     \* the check-status call handled last
    observed,      \* per job id, what the answers of check-status have shown
    indicAvailable \* check-status.ts:8-15  whether require('indic-transliteration') worked

vars == <<file, language, task, isSubmitting, error, segments, toast, data,
          inflight, elapsed, jobs, lastStart, lastCheck,
          observed, indicAvailable>>

ctlVars == <<file, language, task, isSubmitting, error, segments, toast, data,
             inflight, elapsed>>

apiVars == <<lastStart, lastCheck, observed>>

----------------------------------------------------------------------------
(* Bounds of the model *)

NumFiles == 2          \* the files the user has to drop
NumUserLanguages == 2  \* how many of the languages the user picks among
MaxInflight == 2       \* fetch calls that have not resumed
MaxJobs == 1           \* predictions the provider holds
MaxChecks == 3         \* calls of check-status
MaxPollAttempts == 2   \* the configured maximum of poll attempts

----------------------------------------------------------------------------
(* Values *)

Null == "NULL"
Undefined == "UNDEFINED"

Languages == {"en", "hi", "es", "fr", "de"}
LanguageOptions == <<"en", "hi", "es", "fr", "de">>
UserLanguages == {LanguageOptions[i] : i \in 1..NumUserLanguages}
Tasks == {"transcribe", "translate", "transliterate"}

\* JavaScript's x || y on strings: the empty string and undefined are falsy
OrElse(x, y) == IF x \in {"", Undefined, Null} THEN y ELSE x

Seg(i, s, e, t) == [index |-> i, start |-> s, end |-> e, text |-> t]

NullSegs == [tag |-> "null", list |-> <<>>]
UndefSegs == [tag |-> "undefined", list |-> <<>>]
SegList(l) == [tag |-> "list", list |-> l]

\* The transcripts the provider can produce: Latin text, and Devanagari text
\* (written here by its reading, marked "deva:")
Outputs ==
    { <<Seg(1, 0, 2500, "Hello")>>,
      <<Seg(1, 0, 1200, "deva:namaste"), Seg(2, 1200, 3000, "deva:duniya")>> }

ProviderErrors == {"unsupported audio codec"}

\* What an awaited call can do: return ("ok"), or throw an Error with a
\* message (which may be empty)
Thrown == {"", "request failed"}
Outcomes == {"ok"} \cup Thrown

\* What the awaited calls of one handler run do: all return, or the one
\* named throws (the handler does not get to the calls after it)
Runs(calls) ==
    {[c \in calls |-> "ok"]}
    \cup {[c \in calls |-> IF c = bad THEN m ELSE "ok"] : bad \in calls, m \in Thrown}

----------------------------------------------------------------------------
(* HTTP bodies and responses *)

NoInput ==
    [audio |-> Undefined, language |-> Undefined, transcription |-> Undefined,
     translate |-> FALSE, initial_prompt |-> Undefined]

NoPrediction ==
    [id |-> 0, status |-> Undefined, input |-> NoInput, output |-> UndefSegs,
     error |-> Undefined]

\* a body that is not JSON (res.json() rejects)
Unparseable ==
    [parse |-> FALSE, detail |-> Undefined, segments |-> UndefSegs,
     prediction |-> NoPrediction]

\* { detail: d }
DetailBody(d) ==
    [parse |-> TRUE, detail |-> d, segments |-> UndefSegs,
     prediction |-> NoPrediction]

\* the prediction object: { id, status, input, output, error }
PredictionBody(p) ==
    [parse |-> TRUE, detail |-> Undefined, segments |-> UndefSegs,
     prediction |-> p]

\* { language, duration_seconds, segments: [...] }
SegmentsBody(l) ==
    [parse |-> TRUE, detail |-> Undefined, segments |-> SegList(l),
     prediction |-> NoPrediction]

NoResp == [kind |-> "none", message |-> Undefined, status |-> 0, body |-> Unparseable]
Rejected(m) == [kind |-> "reject", message |-> m, status |-> 0, body |-> Unparseable]
Http(code, b) == [kind |-> "http", message |-> Undefined, status |-> code, body |-> b]

\* Response.ok
Ok(resp) == resp.status >= 200 /\ resp.status <= 299

----------------------------------------------------------------------------
(* The provider (Replicate): predictions.create, predictions.get and the    *)
(* life of a prediction                                                     *)

Terminal == {"succeeded", "failed", "canceled"}

NewPrediction(id, input) ==
    [id |-> id, status |-> "starting", input |-> input, output |-> NullSegs,
     error |-> Null]

\* The statuses a prediction can take next
ProviderNext(p) ==
    CASE p.status = "starting" ->
           {[p EXCEPT !.status = "processing"]}
           \cup {[p EXCEPT !.status = "failed", !.error = m] : m \in ProviderErrors}
           \cup {[p EXCEPT !.status = "canceled"]}
      [] p.status = "processing" ->
           {[p EXCEPT !.status = "succeeded", !.output = SegList(o)] : o \in Outputs}
           \cup {[p EXCEPT !.status = "failed", !.error = m] : m \in ProviderErrors}
           \cup {[p EXCEPT !.status = "canceled"]}
      [] OTHER -> {}

ProviderStep(j) ==
    /\ j \in 1..Len(jobs)
    /\ \E p \in ProviderNext(jobs[j]) : jobs' = [jobs EXCEPT ![j] = p]
    /\ UNCHANGED <<ctlVars, apiVars, indicAvailable>>

----------------------------------------------------------------------------
(* api/start-transcription.ts *)

HindiPrompt == "hindi seed prompt"

\* BuildInput with a slip: English audio is taken to need no translation
BuildInputSkippingEnglish(fields) ==
    LET i0 == [audio |-> "dataUri", language |-> fields.language,
               transcription |-> "verbose_json", translate |-> FALSE,
               initial_prompt |-> Undefined]
        i1 == IF fields.task = "translate" /\ fields.language # "en"
              THEN [i0 EXCEPT !.translate = TRUE] ELSE i0
        i2 == IF fields.task = "transliterate"
              THEN [i1 EXCEPT !.language = "hi", !.initial_prompt = HindiPrompt]
              ELSE i1
    IN  i2

\* BuildInput with a slip: transliterate sets the prompt and keeps the
\* language that was selected
BuildInputKeepingLanguage(fields) ==
    LET i0 == [audio |-> "dataUri", language |-> fields.language,
               transcription |-> "verbose_json", translate |-> FALSE,
               initial_prompt |-> Undefined]
        i1 == IF fields.task = "translate"
              THEN [i0 EXCEPT !.translate = TRUE] ELSE i0
        i2 == IF fields.task = "transliterate"
              THEN [i1 EXCEPT !.initial_prompt = HindiPrompt]
              ELSE i1
    IN  i2

\* lines 42-54: the provider input built from the form fields
BuildInput(fields) ==
    LET i0 == [audio |-> "dataUri", language |-> fields.language,
               transcription |-> "verbose_json", translate |-> FALSE,
               initial_prompt |-> Undefined]
        i1 == IF fields.task = "translate"
              THEN [i0 EXCEPT !.translate = TRUE] ELSE i0
        i2 == IF fields.task = "transliterate"
              THEN [i1 EXCEPT !.language = "hi", !.initial_prompt = HindiPrompt]
              ELSE i1
    IN  i2

\* CreateCalls with a slip: a create that throws is tried once more
CreateCallsRetried(input, create) ==
    IF create # "ok" THEN <<input, input>> ELSE <<input>>

\* lines 58-61: the create calls made for one input, create being what
\* replicate.predictions.create does ("ok", or the message thrown)
CreateCalls(input, create) == <<input>>

\* The handler run on request req.  parse, read and create are what
\* parseForm, fs.promises.readFile and replicate.predictions.create do
\* ("ok", or the message of the Error thrown); id is the id the provider
\* gives a prediction it creates.  inputs lists the create calls made.
StartHandler(req, parse, read, create, id) ==
    IF req.method # "POST"
    THEN [resp |-> Http(405, DetailBody("Method not allowed")), inputs |-> <<>>,
          created |-> FALSE]
    ELSE IF parse # "ok"
    THEN [resp |-> Http(500, DetailBody(OrElse(parse, "Error starting transcription."))),
          inputs |-> <<>>, created |-> FALSE]
    ELSE IF ~req.hasFile
    THEN [resp |-> Http(400, DetailBody("No file uploaded.")), inputs |-> <<>>,
          created |-> FALSE]
    ELSE IF read # "ok"
    THEN [resp |-> Http(500, DetailBody(OrElse(read, "Error starting transcription."))),
          inputs |-> <<>>, created |-> FALSE]
    ELSE IF create # "ok"
    THEN [resp |-> Http(500, DetailBody(OrElse(create, "Error starting transcription."))),
          inputs |-> CreateCalls(BuildInput(req), create), created |-> FALSE]
    ELSE [resp |-> Http(202, PredictionBody(NewPrediction(id, BuildInput(req)))),
          inputs |-> CreateCalls(BuildInput(req), create), created |-> TRUE]

NoStart ==
    [req |-> [method |-> Undefined, hasFile |-> FALSE, language |-> Undefined,
              task |-> Undefined],
     run |-> [c \in {"parse", "read", "create"} |-> "ok"],
     resp |-> NoResp, inputs |-> <<>>, created |-> FALSE]

\* The effect of one handled call on the provider and on the call record
StartEffect(req, run, r) ==
    /\ lastStart' = [req |-> req, run |-> run, resp |-> r.resp, inputs |-> r.inputs,
                     created |-> r.created]
    /\ jobs' = IF r.created THEN Append(jobs, r.resp.body.prediction) ELSE jobs

----------------------------------------------------------------------------
(* api/check-status.ts *)

\* indic.transliterate(text, DEVANAGARI, ITRANS) on the texts of Outputs
ToItrans(t) ==
    CASE t = "deva:namaste" -> "namaste"
      [] t = "deva:duniya" -> "duniya"
      [] OTHER -> t

\* transliterate with a slip: no fallback, the library's function is called
\* whether or not it was loaded
transliterateWithoutFallback(t) == ToItrans(t)

\* lines 5, 11: the no-op fallback unless the library was loaded
transliterate(t) == IF indicAvailable THEN ToItrans(t) ELSE t

\* lines 40-52: the prediction answered for a succeeded transliterate job
TransliterateOutput(p) ==
    [p EXCEPT !.output =
        SegList([i \in 1..Len(p.output.list) |->
                    [p.output.list[i] EXCEPT !.text = transliterate(@)]])]

\* CheckStatusAnswer with a slip: a succeeded transliterate job is answered
\* as still processing
CheckStatusAnswerStillProcessing(prediction, tk) ==
    IF prediction.status = "succeeded" /\ tk = "transliterate"
    THEN [TransliterateOutput(prediction) EXCEPT !.status = "processing"]
    ELSE prediction

\* CheckStatusAnswer with a slip: the texts of every succeeded job are
\* transliterated, whatever the task
CheckStatusAnswerAnyTask(prediction, tk) ==
    IF prediction.status = "succeeded"
    THEN TransliterateOutput(prediction)
    ELSE prediction

\* lines 40-55: the prediction sent back for task tk
CheckStatusAnswer(prediction, tk) ==
    IF prediction.status = "succeeded" /\ tk = "transliterate"
    THEN TransliterateOutput(prediction)
    ELSE prediction

\* The handler run on request req = [method, id, task]; get is what
\* replicate.predictions.get does.  reads counts the provider reads made,
\* got is what the read did ("none" when none was made).
CheckStatusHandler(req, get) ==
    IF req.method # "GET"
    THEN [resp |-> Http(405, DetailBody("Method not allowed")), reads |-> 0,
          got |-> "none"]
    ELSE IF req.id = 0
    THEN [resp |-> Http(400, DetailBody("Missing prediction ID.")), reads |-> 0,
          got |-> "none"]
    ELSE IF get # "ok" \/ req.id > Len(jobs)
    THEN [resp |-> Http(500, DetailBody(OrElse(IF get = "ok" THEN "not found" ELSE get,
                                                "Error checking status."))),
          reads |-> 1, got |-> IF get = "ok" THEN "not found" ELSE get]
    ELSE [resp |-> Http(200, PredictionBody(CheckStatusAnswer(jobs[req.id], req.task))),
          reads |-> 1, got |-> "ok"]

NoCheck ==
    [n |-> 0, req |-> [method |-> Undefined, id |-> 0, task |-> Undefined],
     resp |-> NoResp, reads |-> 0, got |-> "none"]

----------------------------------------------------------------------------
(* The serverless handlers as HTTP endpoints: any client may call them *)

\* One call of /api/start-transcription
StartCall(method, hasFile, lang, tk) ==
    /\ Len(jobs) < MaxJobs
    /\ \E run \in Runs({"parse", "read", "create"}) :
          LET req == [method |-> method, hasFile |-> hasFile, language |-> lang,
                      task |-> tk]
          IN  StartEffect(req, run, StartHandler(req, run.parse, run.read, run.create,
                                                 Len(jobs) + 1))
    /\ UNCHANGED <<ctlVars, lastCheck, observed, indicAvailable>>

\* A job the Upload Submitter has started for task tk: the handler's run on
\* a POST with a file in which nothing throws
JobStarted(tk) ==
    /\ Len(jobs) < MaxJobs
    /\ LET req == [method |-> "POST", hasFile |-> TRUE, language |-> "hi",
                   task |-> tk]
           h == StartHandler(req, "ok", "ok", "ok", Len(jobs) + 1)
       IN  jobs' = Append(jobs, h.resp.body.prediction)
    /\ UNCHANGED <<ctlVars, apiVars, indicAvailable>>

\* What a caller has seen of a job: the status answered last, and how many
\* answers in a row showed it
NotObserved == [status |-> "none", times |-> 0]
Observe(o, st) ==
    [status |-> st, times |-> IF o.status = st THEN o.times + 1 ELSE 1]

\* One call of /api/check-status; n numbers the calls
CheckCall(method, id, tk) ==
    /\ lastCheck.n < MaxChecks
    /\ \E get \in Outcomes :
          LET req == [method |-> method, id |-> id, task |-> tk]
              r == CheckStatusHandler(req, get)
          IN  /\ lastCheck' = [n |-> lastCheck.n + 1, req |-> req, resp |-> r.resp,
                               reads |-> r.reads, got |-> r.got]
              /\ observed' = IF r.resp.status = 200
                             THEN [observed EXCEPT ![id] =
                                      Observe(@, r.resp.body.prediction.status)]
                             ELSE observed
    /\ UNCHANGED <<ctlVars, jobs, lastStart, indicAvailable>>

----------------------------------------------------------------------------
(* src/App.tsx: the client controller *)

Toast(kind, msg) == [kind |-> kind, msg |-> msg]
NoToast == Toast("none", "")
CaptionSuccess == Toast("success", "Captions generated successfully!")
NoFileToast == Toast("error", "Please select a file first.")
FileErrorToast ==
    Toast("error", "File error: Please upload a single video file (MP4, MOV, AVI).")

\* lines 103-117, a rejected drop
OnDropRejected ==
    /\ toast' = FileErrorToast
    /\ UNCHANGED <<file, language, task, isSubmitting, error, segments, data,
                   inflight, elapsed>>
    /\ UNCHANGED <<jobs, apiVars, indicAvailable>>

\* lines 103-117, an accepted drop of file f
OnDropAccepted(f) ==
    /\ segments' = NullSegs
    /\ error' = Null
    /\ file' = f
    /\ toast' = Toast("success", "selected!")
    /\ UNCHANGED <<language, task, isSubmitting, data, inflight, elapsed>>
    /\ UNCHANGED <<jobs, apiVars, indicAvailable>>

\* lines 129-133
OnLanguageChange(l) ==
    /\ l # language
    /\ language' = l
    /\ segments' = NullSegs
    /\ error' = Null
    /\ UNCHANGED <<file, task, isSubmitting, toast, data, inflight, elapsed>>
    /\ UNCHANGED <<jobs, apiVars, indicAvailable>>

\* lines 135-139
OnTaskChange(t) ==
    /\ t # task
    /\ task' = t
    /\ segments' = NullSegs
    /\ error' = Null
    /\ UNCHANGED <<file, language, isSubmitting, toast, data, inflight, elapsed>>
    /\ UNCHANGED <<jobs, apiVars, indicAvailable>>

\* The fetch calls that have not resumed are told apart by a number
FreeSlots == (1..MaxInflight) \ {r.n : r \in inflight}
FreeSlot == CHOOSE n \in FreeSlots : \A m \in FreeSlots : n <= m

\* OnSubmit with a slip: the check for a file does not return
OnSubmitWithoutReturn ==
    /\ FreeSlots # {}
    /\ isSubmitting' = TRUE
    /\ error' = Null
    /\ segments' = NullSegs
    /\ toast' = Toast("loading", "Generating your captions, please wait...")
    /\ inflight' = inflight \cup
          {[n |-> FreeSlot, file |-> file, language |-> language,
            task |-> task, resp |-> NoResp]}
    /\ data' = Unparseable
    /\ elapsed' = 0
    /\ UNCHANGED <<file, language, task>>
    /\ UNCHANGED <<jobs, apiVars, indicAvailable>>

\* OnSubmit with a slip: the error of the submission before is not cleared
OnSubmitKeepingError ==
    /\ file # 0 => FreeSlots # {}
    /\ IF file = 0
       THEN /\ toast' = NoFileToast
            /\ UNCHANGED <<isSubmitting, error, segments, data, inflight, elapsed>>
       ELSE /\ isSubmitting' = TRUE
            /\ segments' = NullSegs
            /\ toast' = Toast("loading", "Generating your captions, please wait...")
            /\ inflight' = inflight \cup
                  {[n |-> FreeSlot, file |-> file, language |-> language,
                    task |-> task, resp |-> NoResp]}
            /\ data' = Unparseable
            /\ elapsed' = 0
            /\ UNCHANGED error
    /\ UNCHANGED <<file, language, task>>
    /\ UNCHANGED <<jobs, apiVars, indicAvailable>>

\* lines 141-165: onSubmit up to its first await
OnSubmit ==
    /\ file # 0 => FreeSlots # {}
    /\ IF file = 0
       THEN /\ toast' = NoFileToast
            /\ UNCHANGED <<isSubmitting, error, segments, data, inflight, elapsed>>
       ELSE /\ isSubmitting' = TRUE
            /\ error' = Null
            /\ segments' = NullSegs
            /\ toast' = Toast("loading", "Generating your captions, please wait...")
            /\ inflight' = inflight \cup
                  {[n |-> FreeSlot, file |-> file, language |-> language,
                    task |-> task, resp |-> NoResp]}
            /\ data' = Unparseable
            /\ elapsed' = 0
    /\ UNCHANGED <<file, language, task>>
    /\ UNCHANGED <<jobs, apiVars, indicAvailable>>

\* Disabled with a slip: a running submission does not disable the button
DisabledWithoutFile == file = 0

\* line 376: the button is disabled
Disabled == file = 0 \/ isSubmitting

\* lines 374-377: a click on the submit button
ClickSubmit == ~Disabled /\ OnSubmit

\* line 169: `HTTP ${res.status}`
HttpStatus(code) ==
    CASE code = 400 -> "HTTP 400"
      [] code = 405 -> "HTTP 405"
      [] code = 500 -> "HTTP 500"
      [] code = 502 -> "HTTP 502"
      [] OTHER -> "HTTP"

\* What the continuation of onSubmit (lines 167-182) makes of response resp:
\* the message thrown, or "" when nothing is thrown
ThrownBy(resp) ==
    IF resp.kind = "reject" THEN OrElse(resp.message, "Something went wrong")
    ELSE IF ~Ok(resp)
    THEN LET errorData == IF resp.body.parse THEN resp.body
                          ELSE DetailBody("Unknown error")
         IN  OrElse(errorData.detail, HttpStatus(resp.status))
    ELSE IF ~resp.body.parse
    THEN "Unexpected token in JSON"
    ELSE ""

\* Resume with a slip: isSubmitting is reset after the try block, not in a
\* finally clause
ResumeWithoutFinally(r) ==
    /\ r \in inflight
    /\ r.resp.kind # "none"
    /\ inflight' = inflight \ {r}
    /\ IF ThrownBy(r.resp) = ""
       THEN /\ data' = r.resp.body
            /\ segments' = r.resp.body.segments
            /\ toast' = CaptionSuccess
            /\ isSubmitting' = FALSE
            /\ UNCHANGED error
       ELSE /\ error' = ThrownBy(r.resp)
            /\ toast' = Toast("error", ThrownBy(r.resp))
            /\ UNCHANGED <<data, segments, isSubmitting>>
    /\ elapsed' = 0
    /\ UNCHANGED <<file, language, task>>
    /\ UNCHANGED <<jobs, apiVars, indicAvailable>>

\* lines 167-182: onSubmit resumes with the response to request r
Resume(r) ==
    /\ r \in inflight
    /\ r.resp.kind # "none"
    /\ inflight' = inflight \ {r}
    /\ IF ThrownBy(r.resp) = ""
       THEN /\ data' = r.resp.body
            /\ segments' = r.resp.body.segments
            /\ toast' = CaptionSuccess
            /\ UNCHANGED error
       ELSE /\ error' = ThrownBy(r.resp)
            /\ toast' = Toast("error", ThrownBy(r.resp))
            /\ UNCHANGED <<data, segments>>
    /\ isSubmitting' = FALSE
    /\ elapsed' = 0
    /\ UNCHANGED <<file, language, task>>
    /\ UNCHANGED <<jobs, apiVars, indicAvailable>>

----------------------------------------------------------------------------
(* The network between the controller and the endpoint it posts to *)

Answer(r, resp) == inflight' = (inflight \ {r}) \cup {[r EXCEPT !.resp = resp]}

\* fetch rejects: no connection, the request was aborted
NetworkFails(r) ==
    /\ r \in inflight /\ r.resp.kind = "none"
    /\ \E m \in {"Failed to fetch", ""} : Answer(r, Rejected(m))
    /\ UNCHANGED <<file, language, task, isSubmitting, error, segments, toast,
                   data, elapsed>>
    /\ UNCHANGED <<jobs, apiVars, indicAvailable>>

\* The answers of the /upload backend the README describes
UploadResponses ==
    {Http(200, SegmentsBody(o)) : o \in Outputs}
    \cup {Http(200, Unparseable), Http(502, Unparseable),
          Http(400, DetailBody("Unsupported file type")),
          Http(500, DetailBody(""))}

UploadReplies(r) ==
    /\ r \in inflight /\ r.resp.kind = "none"
    /\ \E resp \in UploadResponses : Answer(r, resp)
    /\ UNCHANGED <<file, language, task, isSubmitting, error, segments, toast,
                   data, elapsed>>
    /\ UNCHANGED <<jobs, apiVars, indicAvailable>>

\* The Upload Submitter (api/start-transcription.ts) answers the request
StartReplies(r) ==
    /\ r \in inflight /\ r.resp.kind = "none"
    /\ Len(jobs) < MaxJobs
    /\ \E run \in Runs({"parse", "read", "create"}) :
          LET req == [method |-> "POST", hasFile |-> TRUE, language |-> r.language,
                      task |-> r.task]
              h == StartHandler(req, run.parse, run.read, run.create, Len(jobs) + 1)
          IN  /\ jobs' = IF h.created THEN Append(jobs, h.resp.body.prediction)
                          ELSE jobs
              /\ Answer(r, h.resp)
    /\ UNCHANGED <<file, language, task, isSubmitting, error, segments, toast,
                   data, elapsed>>
    /\ UNCHANGED <<apiVars, indicAvailable>>

\* A poll interval goes by while a submission is running
Tick ==
    /\ isSubmitting
    /\ elapsed <= MaxPollAttempts
    /\ elapsed' = elapsed + 1
    /\ UNCHANGED <<file, language, task, isSubmitting, error, segments, toast,
                   data, inflight>>
    /\ UNCHANGED <<jobs, apiVars, indicAvailable>>

----------------------------------------------------------------------------
(* src/App.tsx: segment formatting.  Here a string is the sequence of its    *)
(* characters, and the text of a segment is such a sequence.                *)

NL == "\n"

Digit(d) == <<"0", "1", "2", "3", "4", "5", "6", "7", "8", "9">>[d + 1]

\* String(n), n a whole number that is not negative
RECURSIVE NumberString(_)
NumberString(n) ==
    IF n < 10 THEN <<Digit(n)>>
    ELSE NumberString(n \div 10) \o <<Digit(n % 10)>>

\* str.padStart(z, '0')
RECURSIVE padStart(_, _)
padStart(str, z) ==
    IF Len(str) >= z THEN str ELSE padStart(<<"0">> \o str, z)

\* line 56
pad(n, z) == padStart(NumberString(n), z)

RECURSIVE Pow2(_)
Pow2(k) == IF k = 0 THEN 1 ELSE 2 * Pow2(k - 1)

\* 2^k mod 1000
RECURSIVE Pow2Mod1000(_)
Pow2Mod1000(k) == IF k = 0 THEN 1 ELSE (2 * Pow2Mod1000(k - 1)) % 1000

\* floor(log2(x)), x >= 1
RECURSIVE FloorLog2(_)
FloorLog2(x) == IF x < 2 THEN 0 ELSE 1 + FloorLog2(x \div 2)

\* The binary exponent of the number n + f/1000 (f in 1..999 when n = 0):
\* the N with 2^N <= n + f/1000 < 2^(N+1)
Exponent(n, f) ==
    IF n >= 1 THEN FloorLog2(n)
    ELSE 0 - (CHOOSE K \in 1..10 : f * Pow2(K) >= 1000 /\ f * Pow2(K - 1) < 1000)

\* line 55: Math.floor((seconds - Math.floor(seconds)) * 1000) in the
\* arithmetic of IEEE 754 doubles (53 bits, round to nearest, ties to even),
\* seconds being the double nearest to n + f/1000.  The double is the number
\* rounded to a multiple of 2^(N-52); r/1000 is the part of a multiple that
\* the rounding drops (r < 500) or adds (r > 500).  The subtraction is exact;
\* the product is rounded once more, which makes up for a dropped part only
\* when that part is at most half the distance of f to the double below it.
FractionMillis(n, f) ==
    IF f = 0 THEN 0
    ELSE LET N == Exponent(n, f)
             r == (f * Pow2Mod1000(52 - N)) % 1000
             L == FloorLog2(f)
             x == L - N - 1 - (IF f = Pow2(L) THEN 1 ELSE 0)
         IN  IF r = 0 \/ r > 500 THEN f
             ELSE IF x >= 0 /\ r <= Pow2(x) THEN f
             ELSE f - 1

\* lines 51-58, seconds given in milliseconds.  The divisions and remainders
\* of lines 52-54 cannot be off: a time of whole milliseconds is nowhere
\* within the rounding of a double of a multiple of 60 or 3600 without
\* being it.
secondsToTimestamp(seconds) ==
    LET n == seconds \div 1000
        hrs == n \div 3600
        mins == (n % 3600) \div 60
        secs == n % 60
        ms == FractionMillis(n, seconds % 1000)
    IN  pad(hrs, 2) \o <<":">> \o pad(mins, 2) \o <<":">> \o pad(secs, 2)
            \o <<",">> \o pad(ms, 3)

\* lines.join(sep)
RECURSIVE join(_, _)
join(lines, sep) ==
    IF lines = <<>> THEN <<>>
    ELSE IF Len(lines) = 1 THEN lines[1]
    ELSE lines[1] \o sep \o join(Tail(lines), sep)

\* lines 61-67: the lines pushed for the segments
RECURSIVE SrtLines(_)
SrtLines(segs) ==
    IF segs = <<>> THEN <<>>
    ELSE LET s == Head(segs)
         IN  << NumberString(s.index),
                secondsToTimestamp(s.start) \o <<" ", "-", "-", ">", " ">>
                    \o secondsToTimestamp(s.end),
                s.text,
                <<>> >>
             \o SrtLines(Tail(segs))

\* lines 60-69
toSRT(segs) == join(SrtLines(segs), <<NL>>)

\* toPlainText with a slip: segments with no text are left out
toPlainTextSkippingEmpty(segs) ==
    join(SelectSeq([i \in 1..Len(segs) |-> segs[i].text], LAMBDA t : t # <<>>), <<NL>>)

\* lines 71-73
toPlainText(segs) == join([i \in 1..Len(segs) |-> segs[i].text], <<NL>>)

\* lines 90-100: the memos srtUrl and txtUrl hold a blob when segments is
\* neither null nor undefined
HasDownloads == segments.tag = "list"
srtBlob == toSRT(segments.list)
txtBlob == toPlainText(segments.list)

\* line 464: the time shown with segment i
shownTime(i) == secondsToTimestamp(segments.list[i].start)

\* Bounds of the segment lists
MaxSegments == 2
MaxTextLen == 1

\* Texts: of a letter and of line breaks
Texts == UNION {[1..k -> {"a", NL}] : k \in 0..MaxTextLen}

\* index, start and end of the segments
SegFrames ==
    { [index |-> 1, start |-> 0, end |-> 2500],
      [index |-> 2, start |-> 2500, end |-> 3661001] }

Segs == {Seg(fr.index, fr.start, fr.end, t) : fr \in SegFrames, t \in Texts}

SegLists == UNION {[1..k -> Segs] : k \in 0..MaxSegments}

HelloList == <<Seg(1, 0, 2500, <<"H", "e", "l", "l", "o">>)>>

\* Times below 100 hours, in milliseconds: every millisecond of some seconds
WholeSeconds == {0, 1, 2, 59, 60, 3599, 3600, 86399, 359999}
Times == {n * 1000 + f : n \in WholeSeconds, f \in 0..999}
TimeLists == {<<Seg(1, t, t + 1000, <<"a">>)>> : t \in Times}

----------------------------------------------------------------------------
(* Specifications *)

Init ==
    /\ file = 0
    /\ language = "en"
    /\ task = "transcribe"
    /\ isSubmitting = FALSE
    /\ error = Null
    /\ segments = NullSegs
    /\ toast = NoToast
    /\ data = Unparseable
    /\ inflight = {}
    /\ elapsed = 0
    /\ jobs = <<>>
    /\ lastStart = NoStart
    /\ lastCheck = NoCheck
    /\ observed = [j \in 1..MaxJobs |-> NotObserved]
    /\ indicAvailable \in BOOLEAN

UserStep ==
    \/ OnDropRejected
    \/ \E f \in 1..NumFiles : OnDropAccepted(f)
    \/ \E l \in UserLanguages : OnLanguageChange(l)
    \/ \E t \in Tasks : OnTaskChange(t)

EndpointStep ==
    \/ \E r \in inflight : NetworkFails(r)
    \/ \E r \in inflight : UploadReplies(r)
    \/ \E r \in inflight : StartReplies(r)
    \/ \E r \in inflight : Resume(r)

\* The application as the user drives it.  Nothing in it calls
\* check-status, so whether the transliteration library loaded is left out.
AppInit == Init /\ ~indicAvailable

Next == UserStep \/ ClickSubmit \/ EndpointStep

Spec == AppInit /\ [][Next]_vars

\* The application, and the provider working on the jobs it was given
FullNext == Next \/ \E j \in 1..MaxJobs : ProviderStep(j)

FullSpec == AppInit /\ [][FullNext]_vars

\* The application with time passing
TimedNext == Next \/ Tick

TimedSpec == AppInit /\ [][TimedNext]_vars

\* The controller's handlers called directly, whatever the button shows,
\* one call of onSubmit at a time
HandlerNext == UserStep \/ (inflight = {} /\ OnSubmit) \/ EndpointStep

HandlerSpec == AppInit /\ [][HandlerNext]_vars

\* The controller after /upload has answered a submission with the segments
\* l, and the user's steps from there
FormatInit ==
    /\ file = 1
    /\ language = "en"
    /\ task = "transcribe"
    /\ isSubmitting = FALSE
    /\ error = Null
    /\ \E l \in SegLists \cup {HelloList} \cup TimeLists :
          /\ segments = SegList(l)
          /\ data = SegmentsBody(l)
    /\ toast = CaptionSuccess
    /\ inflight = {}
    /\ elapsed = 0
    /\ jobs = <<>>
    /\ lastStart = NoStart
    /\ lastCheck = NoCheck
    /\ observed = [j \in 1..MaxJobs |-> NotObserved]
    /\ indicAvailable = FALSE

FormatSpec == FormatInit /\ [][UserStep]_vars

\* The Upload Submitter called by any HTTP client
StartNext ==
    \E method \in {"POST", "GET"}, hasFile \in BOOLEAN, l \in Languages, t \in Tasks :
        StartCall(method, hasFile, l, t)

StartSpec == Init /\ [][StartNext]_vars

\* check-status tells transliterate from the other tasks only
StatusTasks == {"transcribe", "transliterate"}

\* The Status Poller called by any HTTP client, on jobs that were started
\* and that the provider works on
StatusNext ==
    \/ \E t \in StatusTasks : JobStarted(t)
    \/ \E method \in {"GET", "POST"}, id \in 0..MaxJobs, t \in StatusTasks :
          CheckCall(method, id, t)
    \/ \E j \in 1..MaxJobs : ProviderStep(j)

StatusSpec == Init /\ [][StatusNext]_vars

----------------------------------------------------------------------------
(* Claims *)

\* onSubmit resumes with the response to request r in this step
Resumes(r) == r \in inflight /\ r.resp.kind # "none" /\ r \notin inflight'

\* Request r was made for a file, language or task that is no longer the
\* selected one
Stale(r) == r.file # file \/ r.language # language \/ r.task # task

\* C1: when onSubmit resumes with the response to a submission that was
\* superseded (another file, language or task was selected since), the
\* controller's segments and error stay as they are.
C1_StaleResponseRejected ==
    [][\A r \in inflight :
          (Resumes(r) /\ Stale(r)) => (segments' = segments /\ error' = error)]_vars

\* C2: once the Upload Submitter has answered with a job handle, success is
\* reported only on a status answer that says succeeded, and the segments
\* shown are that answer's output.
C2_DoneOnlyAfterSucceeded ==
    (toast = CaptionSuccess /\ data.prediction.id # 0)
        => /\ data.prediction.status = "succeeded"
           /\ segments \in {NullSegs, data.prediction.output}

\* C3: a submission never runs beyond the configured maximum of poll
\* attempts: by then the controller has left the submitting state (with a
\* timeout error).
C3_SubmissionEndsByMaxAttempts == isSubmitting => elapsed <= MaxPollAttempts

\* C4: while no file is selected nothing, triggering generation included,
\* issues a request or changes isSubmitting, error or segments.
C4_NoFileFailsFast ==
    [][(file = 0 /\ file' = 0)
          => /\ inflight' = inflight
             /\ isSubmitting' = isSubmitting
             /\ error' = error
             /\ segments' = segments]_vars

\* generation was triggered with no file selected, and the error is shown
C4_Witness ==
    /\ file = 0
    /\ toast = NoFileToast
    /\ inflight = {} /\ ~isSubmitting /\ error = Null /\ segments = NullSegs

\* The responses that are failures: the fetch rejected, the status is not
\* 2xx, or the body cannot be parsed
Failure(resp) == resp.kind = "reject" \/ ~Ok(resp) \/ ~resp.body.parse

OutcomeShown ==
    toast = CaptionSuccess
    \/ (toast.kind = "error" /\ toast \notin {NoFileToast, FileErrorToast})

\* C6: when the job of the submission has failed at the provider with
\* message m and the controller shows how the submission ended, it shows the
\* error m.
C6_ProviderErrorShown ==
    \A j \in 1..Len(jobs) :
        (~isSubmitting /\ OutcomeShown /\ data.prediction.id = j
            /\ jobs[j].status = "failed")
            => /\ toast = Toast("error", jobs[j].error)
               /\ error \in {Null, jobs[j].error}

\* C7: at most one fetch of onSubmit is awaited at any time, and while one
\* is, isSubmitting is true and the button is disabled.
C7_OneSubmissionInFlight ==
    /\ Cardinality(inflight) <= 1
    /\ inflight # {} => (isSubmitting /\ Disabled)

\* a submission is running, its request not yet answered, after an earlier
\* one was given a provider job
C7_Witness ==
    /\ Cardinality(inflight) = 1
    /\ \A r \in inflight : r.resp.kind = "none"
    /\ isSubmitting
    /\ jobs # <<>>

\* A call of start-transcription has been handled
StartHandled == lastStart.req.method # Undefined

\* C8 as stated: one create call when the request is a POST carrying a
\* file, and otherwise none and the answer 405 or 400.
C8_OneJobPerPostWithFile ==
    StartHandled =>
        IF lastStart.req.method = "POST" /\ lastStart.req.hasFile
        THEN Len(lastStart.inputs) = 1
        ELSE /\ Len(lastStart.inputs) = 0
             /\ lastStart.resp.status =
                   (IF lastStart.req.method # "POST" THEN 405 ELSE 400)

\* The handler got as far as the create call
ReachedCreate ==
    /\ lastStart.req.method = "POST"
    /\ lastStart.run.parse = "ok"
    /\ lastStart.req.hasFile
    /\ lastStart.run.read = "ok"

\* C8 amended: one create call when the request is a POST whose form is
\* parsed, carries a file and whose file is read, and none otherwise (405
\* for a non-POST, 400 for a missing file, 500 when parsing or reading
\* throws); never a second create call; a job and a job handle (202) when
\* the create call returns, and no job and a 500 with the error's message
\* when it throws.
C8_OneCreatePerCall ==
    StartHandled =>
        /\ Len(lastStart.inputs) = (IF ReachedCreate THEN 1 ELSE 0)
        /\ lastStart.created = (ReachedCreate /\ lastStart.run.create = "ok")
        /\ lastStart.resp.status =
              (IF lastStart.req.method # "POST" THEN 405
               ELSE IF lastStart.run.parse # "ok" THEN 500
               ELSE IF ~lastStart.req.hasFile THEN 400
               ELSE IF lastStart.run.read # "ok" THEN 500
               ELSE IF lastStart.run.create # "ok" THEN 500
               ELSE 202)
        /\ lastStart.created = (lastStart.resp.body.prediction.id # 0)
        /\ lastStart.created => jobs[Len(jobs)] = lastStart.resp.body.prediction
        /\ (ReachedCreate /\ lastStart.run.create # "ok")
              => lastStart.resp.body.detail =
                    OrElse(lastStart.run.create, "Error starting transcription.")

\* the create call threw: it was made once and answered with an error
C8_Witness ==
    /\ ReachedCreate
    /\ lastStart.run.create = "request failed"
    /\ Len(lastStart.inputs) = 1
    /\ lastStart.resp.status = 500
    /\ jobs = <<>>

StatusHandled == lastCheck.req.method # Undefined

\* check-status is answered in this step
Checks == lastCheck'.n # lastCheck.n

\* C9 as stated: once a job was seen in a terminal status, the status seen
\* stays and no provider read is made for that job id again; after
\* processing only processing and the terminal statuses are seen.
C9_NoReadAfterTerminal ==
    [][\A j \in 1..MaxJobs :
          /\ observed[j].status \in Terminal
                => /\ observed'[j].status = observed[j].status
                   /\ ~(Checks /\ lastCheck'.req.id = j /\ lastCheck'.reads > 0)
          /\ observed[j].status = "processing"
                => observed'[j].status \in {"processing"} \cup Terminal]_vars

\* C9 amended: once a job was seen in a terminal status, the status seen
\* stays; after processing only processing and the terminal statuses are
\* seen; and every GET that names a job id makes one provider read, also
\* for a job seen in a terminal status before: ending the polling is left to
\* the caller.
C9_TerminalStatusStays ==
    [][/\ \A j \in 1..MaxJobs :
             /\ observed[j].status \in Terminal
                   => observed'[j].status = observed[j].status
             /\ observed[j].status = "processing"
                   => observed'[j].status \in {"processing"} \cup Terminal
       /\ Checks
             => lastCheck'.reads =
                   (IF lastCheck'.req.method = "GET" /\ lastCheck'.req.id # 0
                    THEN 1 ELSE 0)]_vars

\* a job seen in a terminal status was checked again, with one more read
C9_Witness ==
    \E j \in 1..MaxJobs :
        /\ observed[j].status \in Terminal
        /\ observed[j].times >= 2
        /\ lastCheck.req.id = j
        /\ lastCheck.reads = 1

\* C10: the input of every create call made for a translate request has
\* the translate flag set, whatever the language of the request.
C10_TranslateSetsFlag ==
    (StartHandled /\ lastStart.req.task = "translate")
        => /\ lastStart.req.language \in Languages
           /\ \A i \in 1..Len(lastStart.inputs) : lastStart.inputs[i].translate
           /\ lastStart.created => jobs[Len(jobs)].input.translate

\* a job was created for a translate request whose language is English
C10_Witness ==
    /\ lastStart.created
    /\ lastStart.req.task = "translate"
    /\ lastStart.req.language = "en"
    /\ jobs[Len(jobs)].input.translate

\* C11: the input of every create call made for a transliterate request has
\* the language hi and the fixed initial prompt, whatever the language of
\* the request; so has the job created.
C11_TransliterateForcesHindi ==
    (StartHandled /\ lastStart.req.task = "transliterate")
        => /\ lastStart.req.language \in Languages
           /\ \A i \in 1..Len(lastStart.inputs) :
                 /\ lastStart.inputs[i].language = "hi"
                 /\ lastStart.inputs[i].initial_prompt = HindiPrompt
           /\ lastStart.created
                 => /\ jobs[Len(jobs)].input.language = "hi"
                    /\ jobs[Len(jobs)].input.initial_prompt = HindiPrompt

\* a job was created for a transliterate request whose language is German
C11_Witness ==
    /\ lastStart.created
    /\ lastStart.req.task = "transliterate"
    /\ lastStart.req.language = "de"
    /\ jobs[Len(jobs)].input.language = "hi"
    /\ jobs[Len(jobs)].input.initial_prompt = HindiPrompt

\* C12: with the transliteration library not loaded, a check of a succeeded
\* job for the task transliterate whose provider read returns is answered
\* 200 with the status succeeded and every segment's text as the provider
\* has it.
C12_FallbackKeepsText ==
    [][\A j \in 1..Len(jobs) :
          (/\ Checks
           /\ ~indicAvailable
           /\ lastCheck'.req = [method |-> "GET", id |-> j, task |-> "transliterate"]
           /\ lastCheck'.got = "ok"
           /\ jobs[j].status = "succeeded")
          => LET answer == lastCheck'.resp.body.prediction
             IN  /\ lastCheck'.resp.status = 200
                 /\ answer.status = "succeeded"
                 /\ answer.error = jobs[j].error
                 /\ Len(answer.output.list) = Len(jobs[j].output.list)
                 /\ \A i \in 1..Len(jobs[j].output.list) :
                       answer.output.list[i].text = jobs[j].output.list[i].text]_vars

\* without the library, a succeeded transliterate job with Devanagari text
\* was checked and answered with that text
C12_Witness ==
    /\ ~indicAvailable
    /\ lastCheck.req.method = "GET"
    /\ lastCheck.req.task = "transliterate"
    /\ lastCheck.resp.status = 200
    /\ lastCheck.resp.body.prediction.status = "succeeded"
    /\ Len(lastCheck.resp.body.prediction.output.list) = 2
    /\ lastCheck.resp.body.prediction.output.list[1].text = "deva:namaste"

\* C16: a status check writes nothing at the provider and reads it at most
\* once; the prediction it answers is the provider's, unchanged unless the
\* status is succeeded and the task transliterate, and then changed in the
\* segments' texts only: id, status, error, input, the number and order of
\* the segments and their index, start and end are the provider's.
C16_OnlySegmentTextChanges ==
    [][Checks =>
          /\ jobs' = jobs
          /\ lastCheck'.reads <= 1
          /\ lastCheck'.resp.status = 200 =>
                LET p == jobs[lastCheck'.req.id]
                    q == lastCheck'.resp.body.prediction
                IN  /\ lastCheck'.reads = 1
                    /\ q.id = p.id /\ q.status = p.status /\ q.error = p.error
                    /\ q.input = p.input
                    /\ q.output.tag = p.output.tag
                    /\ Len(q.output.list) = Len(p.output.list)
                    /\ \A i \in 1..Len(p.output.list) :
                          /\ q.output.list[i].index = p.output.list[i].index
                          /\ q.output.list[i].start = p.output.list[i].start
                          /\ q.output.list[i].end = p.output.list[i].end
                    /\ ~(p.status = "succeeded" /\ lastCheck'.req.task = "transliterate")
                          => q = p]_vars

\* a succeeded transliterate job was answered with its texts transliterated
\* and its times kept, and the provider's copy is as it was
C16_Witness ==
    /\ lastCheck.resp.status = 200
    /\ lastCheck.req.task = "transliterate"
    /\ lastCheck.req.id \in 1..Len(jobs)
    /\ LET p == jobs[lastCheck.req.id]
           q == lastCheck.resp.body.prediction
       IN  /\ p.status = "succeeded"
           /\ Len(p.output.list) = 2
           /\ p.output.list[2].text = "deva:duniya"
           /\ q.status = "succeeded"
           /\ Len(q.output.list) = 2
           /\ q.output.list[2].text = "duniya"
           /\ q.output.list[2].start = 1200 /\ q.output.list[2].end = 3000

\* C17: error and segments are never both other than null, and while
\* isSubmitting is true both are null.
C17_ErrorAndSegmentsExclusive ==
    /\ error = Null \/ segments = NullSegs
    /\ isSubmitting => (error = Null /\ segments = NullSegs)

\* a submission has ended with segments, which are shown with no error
C17_Witness ==
    /\ segments.tag = "list"
    /\ Len(segments.list) = 2
    /\ error = Null
    /\ ~isSubmitting
    /\ toast = CaptionSuccess

\* The block of segment s as C13 states it: index, line break, start -->
\* end, line break, text, line break, line break
SrtBlock(s) ==
    NumberString(s.index) \o <<NL>>
        \o secondsToTimestamp(s.start) \o <<" ", "-", "-", ">", " ">>
        \o secondsToTimestamp(s.end) \o <<NL>>
        \o s.text \o <<NL, NL>>

RECURSIVE SrtBlocks(_)
SrtBlocks(segs) ==
    IF segs = <<>> THEN <<>> ELSE SrtBlock(Head(segs)) \o SrtBlocks(Tail(segs))

\* The characters of str as one string
RECURSIVE Flat(_)
Flat(str) == IF str = <<>> THEN "" ELSE Head(str) \o Flat(Tail(str))

\* C13: the subtitle serialization is the blocks of the segments one after
\* the other in the order of the list; for the one segment {1, 0.0, 2.5,
\* "Hello"} it is "1\n00:00:00,000 --> 00:00:02,500\nHello\n\n".
C13_SrtIsBlocks ==
    HasDownloads
        => /\ srtBlob = SrtBlocks(segments.list)
           /\ segments.list = HelloList
                 => Flat(srtBlob) = "1\n00:00:00,000 --> 00:00:02,500\nHello\n\n"

\* str.split('\n')
RECURSIVE split(_)
split(str) ==
    IF \A k \in 1..Len(str) : str[k] # NL THEN <<str>>
    ELSE LET k == CHOOSE k \in 1..Len(str) :
                      str[k] = NL /\ \A j \in 1..(k - 1) : str[j] # NL
         IN  <<SubSeq(str, 1, k - 1)>> \o split(SubSeq(str, k + 1, Len(str)))

\* The lines of a text: none for the empty text
LinesOf(str) == IF str = <<>> THEN <<>> ELSE split(str)

TextsOf(segs) == [i \in 1..Len(segs) |-> segs[i].text]

NoLineBreak(str) == \A k \in 1..Len(str) : str[k] # NL

\* C14 as stated: for every segment list the plain-text serialization has
\* as many lines as there are segments, line i being the text of segment i.
C14_LineCountIsSegmentCount ==
    HasDownloads => LinesOf(txtBlob) = TextsOf(segments.list)

\* C14 amended: the plain-text serialization is the texts joined by line
\* breaks; for the empty list it is the empty text, and for a list that is
\* not empty and whose texts hold no line break, splitting it at the line
\* breaks gives the texts of the segments in their order.
C14_SplitGivesTexts ==
    HasDownloads
        => /\ txtBlob = join(TextsOf(segments.list), <<NL>>)
           /\ segments.list = <<>> => txtBlob = <<>>
           /\ (/\ segments.list # <<>>
               /\ \A i \in 1..Len(segments.list) : NoLineBreak(segments.list[i].text))
                 => split(txtBlob) = TextsOf(segments.list)

\* two segments, the first with no text: the serialization is a line break
\* and the text of the second
C14_Witness ==
    /\ HasDownloads
    /\ Len(segments.list) = 2
    /\ segments.list[1].text = <<>>
    /\ segments.list[2].text = <<"a">>
    /\ txtBlob = <<NL, "a">>

\* The timestamp as C15 states it, of a time in milliseconds
TwoDigits(x) == <<Digit((x \div 10) % 10), Digit(x % 10)>>
ThreeDigits(x) == <<Digit((x \div 100) % 10)>> \o TwoDigits(x)
StatedTimestamp(t) ==
    LET n == t \div 1000
    IN  TwoDigits(n \div 3600) \o <<":">> \o TwoDigits((n % 3600) \div 60) \o <<":">>
            \o TwoDigits(n % 60) \o <<",">> \o ThreeDigits(t % 1000)

\* C15: a time of whole milliseconds below 100 hours is shown as
\* HH:MM:SS,mmm, mmm being its milliseconds.
C15_TimestampComponents ==
    HasDownloads
        => \A i \in 1..Len(segments.list) :
              segments.list[i].start < 360000000
                 => shownTime(i) = StatedTimestamp(segments.list[i].start)

====
